---- MODULE Spec2Model ----
(***************************************************************************)
(* Execution Protocol Integration API: the polling (LIST) and snapshot     *)
(* (GET) endpoints, the PostgreSQL repository behind them, and a polling   *)
(* consumer.                                                               *)
(*                                                                         *)
(* The execution_protocols table is a partial function from row keys to    *)
(* rows.  Time is counted in storage ticks (the resolution of the          *)
(* TIMESTAMPTZ column); a response carries timestamps as JavaScript Dates, *)
(* whose resolution is one millisecond = TicksPerMs ticks.                 *)
(***************************************************************************)
EXTENDS Integers, Sequences, FiniteSets, TLC

VARIABLES store, phase, req, calls, resp, client, faults,
          env, headers, seed, inflight, exec

\* the configuration and the headers the router sees
authVars == <<env, headers>>

\* the seed script, a LIST request between its two queries, and a protocol
\* execution with its timers
procVars == <<seed, inflight, exec>>

vars == <<store, phase, req, calls, resp, client, faults, authVars, procVars>>

(***************************************************************************)
(* Bounds of the model.                                                    *)
(***************************************************************************)
MaxRecords == 2
MaxTime == 2
TicksPerMs == 2

(***************************************************************************)
(* Program constants.                                                      *)
(***************************************************************************)
DefaultLimit == 50
MaxLimit == 100
DefaultOffset == 0

RowKeys == 1..MaxRecords
Times == 0..MaxTime
Tenants == {"tenant-acme", "tenant-globex"}
Statuses == {"CLOSED", "DRAFT"}

Min(a, b) == IF a <= b THEN a ELSE b
Max(a, b) == IF a >= b THEN a ELSE b

(***************************************************************************)
(* Snapshot documents: a JSONB value.  The column is NOT NULL, which still *)
(* admits the JSON literal null.                                           *)
(***************************************************************************)
SnapshotObject == [json |-> "object"]
SnapshotJsonNull == [json |-> "null"]
SnapshotValues == {SnapshotObject, SnapshotJsonNull}

(***************************************************************************)
(* Rows of execution_protocols.                                            *)
(***************************************************************************)
SqlNull == -1
SiteIds == {"site-l3-berlin", ""}
PlantIds == {"plant-t17", ""}

RowsWith(snapshots) ==
  [tenant_id : Tenants, status : Statuses, updated_at : Times,
   snapshot : snapshots, site_id : {"site-l3-berlin"},
   plant_id : {"plant-t17"}, created_at : {0}, closed_at : {0}]

ListRows == RowsWith({SnapshotObject})
SnapshotRows ==
  {r \in RowsWith(SnapshotValues) : r.updated_at = 0}

\* CLOSED rows of every site_id and plant_id, with and without closed_at
MetadataRows ==
  [tenant_id : Tenants, status : {"CLOSED"}, updated_at : {1},
   snapshot : {SnapshotObject}, site_id : SiteIds, plant_id : PlantIds,
   created_at : {0}, closed_at : {SqlNull, 1}]

EmptyStore == [k \in {} |-> SnapshotObject]

(***************************************************************************)
(* The seed data.  Its clock counts minutes from 2026-01-01T00:00Z, every  *)
(* minute a whole number of milliseconds; day is the day of the year.      *)
(***************************************************************************)
SeedTime(day, hour, minute) ==
  ((((day - 1) * 24) + hour) * 60 + minute) * TicksPerMs

\* baseDate 2026-02-01T00:00Z plus a number of days
BaseDatePlus(days) == SeedTime(32 + days, 0, 0)

SeedRecord(id, siteId, plantId, tenantId, createdAt, closedAt, updatedAt) ==
  [id |-> id, siteId |-> siteId, plantId |-> plantId, tenantId |-> tenantId,
   status |-> "CLOSED", snapshot |-> SnapshotObject, createdAt |-> createdAt,
   closedAt |-> closedAt, updatedAt |-> updatedAt]

generateSeedData ==
  <<SeedRecord(1, "L3", "T17", "tenant-acme",
               SeedTime(15, 8, 0), SeedTime(15, 10, 30), BaseDatePlus(1)),
    SeedRecord(2, "L3", "T18", "tenant-acme",
               SeedTime(32, 9, 0), SeedTime(32, 11, 45), BaseDatePlus(5)),
    SeedRecord(3, "L5", "T22", "tenant-globex",
               SeedTime(41, 14, 0), SeedTime(41, 15, 20), BaseDatePlus(10)),
    SeedRecord(4, "L8", "T31", "tenant-acme",
               SeedTime(43, 10, 0), SeedTime(43, 12, 15), BaseDatePlus(12)),
    SeedRecord(5, "L5", "T23", "tenant-globex",
               SeedTime(45, 8, 30), SeedTime(45, 10, 0), BaseDatePlus(14))>>

SeedKeys == {generateSeedData[i].id : i \in DOMAIN generateSeedData}

\* the row the INSERT of the seed script writes for a record
SeedRow(record) ==
  [tenant_id |-> record.tenantId, status |-> record.status,
   updated_at |-> record.updatedAt, snapshot |-> record.snapshot,
   site_id |-> record.siteId, plant_id |-> record.plantId,
   created_at |-> record.createdAt, closed_at |-> record.closedAt]

\* INSERT INTO execution_protocols ... ON CONFLICT (id) DO UPDATE SET
\* snapshot = EXCLUDED.snapshot, updated_at = EXCLUDED.updated_at
InsertOnConflict(s, record) ==
  IF record.id \in DOMAIN s
  THEN [s EXCEPT ![record.id].snapshot = record.snapshot,
                 ![record.id].updated_at = record.updatedAt]
  ELSE [k \in DOMAIN s \cup {record.id} |->
          IF k = record.id THEN SeedRow(record) ELSE s[k]]

\* the table after DELETE FROM and the first n inserts of the seed script
RECURSIVE SeedInserts(_)
SeedInserts(n) ==
  IF n = 0 THEN EmptyStore
  ELSE InsertOnConflict(SeedInserts(n - 1), generateSeedData[n])

\* the table a committed run of the seed script leaves
SeededStore == SeedInserts(Len(generateSeedData))

StoresOver(keys, rows) == UNION {[S -> rows] : S \in SUBSET keys}

(***************************************************************************)
(* Raw request parameters, as Express hands them to the handler: absent,   *)
(* the empty string, a decimal integer, or other text.                     *)
(***************************************************************************)
Absent == [kind |-> "absent", n |-> 0]
EmptyText == [kind |-> "empty", n |-> 0]
OtherText == [kind |-> "text", n |-> 0]
IntText(k) == [kind |-> "int", n |-> k]
IsoText(t) == [kind |-> "iso", n |-> t]

\* JavaScript truthiness of a query-string value
Truthy(raw) == raw.kind \notin {"absent", "empty"}

\* new Date(raw).getTime() is not NaN
IsValidDate(raw) == raw.kind = "iso"

\* parseInt(raw, 10) || dflt, after the destructuring default dflt
ParseIntOr(raw, dflt) ==
  IF raw.kind = "int" /\ raw.n # 0 THEN raw.n ELSE dflt

(***************************************************************************)
(* Date serialisation: a TIMESTAMPTZ read through the driver is a Date     *)
(* (millisecond resolution), serialised by res.json as an ISO string.      *)
(***************************************************************************)
ToISOString(t) == t \div TicksPerMs

\* the storage value an ISO string of millisecond resolution denotes
FromISOString(ms) == ms * TicksPerMs

(***************************************************************************)
(* UUID texts.  An id is the sequence of its characters; Uuid(k) is the    *)
(* id column of row k.                                                     *)
(***************************************************************************)
HexDigits ==
  {"0", "1", "2", "3", "4", "5", "6", "7", "8", "9",
   "a", "b", "c", "d", "e", "f", "A", "B", "C", "D", "E", "F"}
VariantDigits == {"8", "9", "a", "b", "A", "B"}
HyphenAt == {9, 14, 19, 24}
DecimalDigit == <<"0", "1", "2", "3", "4", "5", "6", "7", "8", "9">>

UuidPrefix ==
  <<"5", "5", "0", "e", "8", "4", "0", "0", "-", "e", "2", "9", "b", "-",
    "4", "1", "d", "4", "-", "a", "7", "1", "6", "-",
    "4", "4", "6", "6", "5", "5", "4", "4", "0", "0", "0">>

Uuid(k) == Append(UuidPrefix, DecimalDigit[(k % 10) + 1])

\* a well-formed UUID of version 1: accepted by the UUID column type
UuidV1 ==
  <<"5", "5", "0", "e", "8", "4", "0", "0", "-", "e", "2", "9", "b", "-",
    "1", "1", "d", "4", "-", "a", "7", "1", "6", "-",
    "4", "4", "6", "6", "5", "5", "4", "4", "0", "0", "0", "0">>

NotAUuid == <<"n", "o", "t", "-", "a", "-", "u", "u", "i", "d">>
NoId == <<>>

\* the validation that lets every id through
AnyIdValid(id) == TRUE

\* /^[0-9a-f]{8}-[0-9a-f]{4}-4[0-9a-f]{3}-[89ab][0-9a-f]{3}-[0-9a-f]{12}$/i
isValidUUID(id) ==
  /\ Len(id) = 36
  /\ \A i \in 1..36 :
       IF i \in HyphenAt THEN id[i] = "-"
       ELSE IF i = 15 THEN id[i] = "4"
       ELSE IF i = 20 THEN id[i] \in VariantDigits
       ELSE id[i] \in HexDigits

\* a text the UUID column type takes as a parameter value: hexadecimal
\* groups of 8-4-4-4-12, of any version and variant
IsUuidText(id) ==
  /\ Len(id) = 36
  /\ \A i \in 1..36 :
       IF i \in HyphenAt THEN id[i] = "-" ELSE id[i] \in HexDigits

(***************************************************************************)
(* PostgresExecutionProtocolRepository                                     *)
(***************************************************************************)
DbError == [ok |-> FALSE, rows |-> <<>>, total |-> 0]

\* the filter without its cursor condition
MatchesWithoutCursor(s, k, tenantId, updatedAfter) ==
  /\ s[k].tenant_id = tenantId
  /\ s[k].status = "CLOSED"

\* the filter without its tenant condition
MatchesAnyTenant(s, k, tenantId, updatedAfter) ==
  /\ s[k].status = "CLOSED"
  /\ (Truthy(updatedAfter) => s[k].updated_at > updatedAfter.n)

\* the filter without its status condition
MatchesAnyStatus(s, k, tenantId, updatedAfter) ==
  /\ s[k].tenant_id = tenantId
  /\ (Truthy(updatedAfter) => s[k].updated_at > updatedAfter.n)

\* WHERE tenant_id = $1 AND status = $2 [AND updated_at > $3]
Matches(s, k, tenantId, updatedAfter) ==
  /\ s[k].tenant_id = tenantId
  /\ s[k].status = "CLOSED"
  /\ (Truthy(updatedAfter) => s[k].updated_at > updatedAfter.n)

Matching(s, tenantId, updatedAfter) ==
  {k \in DOMAIN s : Matches(s, k, tenantId, updatedAfter)}

\* the result without ORDER BY: the keys in any order
AnyOrder(s, keys) ==
  {o \in [1..Cardinality(keys) -> keys] :
     \A i, j \in DOMAIN o : i # j => o[i] # o[j]}

\* ORDER BY updated_at ASC: every order of the keys that is ascending in
\* updated_at; the order among equal updated_at is not determined
RECURSIVE OrderByUpdatedAt(_, _)
OrderByUpdatedAt(s, keys) ==
  IF keys = {} THEN {<<>>}
  ELSE LET half == Cardinality(keys) \div 2
           before(t) == {k \in keys : s[k].updated_at < t}
           after(t) == {k \in keys : s[k].updated_at > t}
           mid == CHOOSE t \in {s[k].updated_at : k \in keys} :
                    /\ Cardinality(before(t)) <= half
                    /\ Cardinality(after(t)) <= half
           equal == {k \in keys : s[k].updated_at = mid}
       IN  {a \o e \o b : a \in OrderByUpdatedAt(s, before(mid)),
                          e \in AnyOrder(s, equal),
                          b \in OrderByUpdatedAt(s, after(mid))}

\* LIMIT l OFFSET f over an ordered result
LimitOffset(o, l, f) ==
  [i \in 1..Max(0, Min(l, Len(o) - f)) |-> o[f + i]]

\* SELECT id, ..., status, ..., updated_at of one row
SelectRow(s, k) ==
  [id |-> k, site_id |-> s[k].site_id, plant_id |-> s[k].plant_id,
   tenant_id |-> s[k].tenant_id, status |-> s[k].status,
   created_at |-> s[k].created_at, closed_at |-> s[k].closed_at,
   updated_at |-> s[k].updated_at]

\* PageQuery without Math.min(limit, 100)
PageQueryUncapped(s, tenantId, updatedAfter, limit, offset) ==
  LET cappedLimit == limit
      keys == Matching(s, tenantId, updatedAfter)
  IN  IF cappedLimit < 0 \/ offset < 0
      THEN {DbError}
      ELSE {[ok |-> TRUE,
             rows |-> [i \in DOMAIN LimitOffset(o, cappedLimit, offset) |->
                         SelectRow(s, LimitOffset(o, cappedLimit, offset)[i])],
             total |-> 0] : o \in OrderByUpdatedAt(s, keys)}

\* the page query of getAllForPolling: the results it can produce
PageQuery(s, tenantId, updatedAfter, limit, offset) ==
  LET cappedLimit == Min(limit, MaxLimit)
      keys == Matching(s, tenantId, updatedAfter)
  IN  IF cappedLimit < 0 \/ offset < 0
      THEN {DbError}
      ELSE {[ok |-> TRUE,
             rows |-> [i \in DOMAIN LimitOffset(o, cappedLimit, offset) |->
                         SelectRow(s, LimitOffset(o, cappedLimit, offset)[i])],
             total |-> 0] : o \in OrderByUpdatedAt(s, keys)}

\* the count query of getAllForPolling
CountQuery(s, tenantId, updatedAfter) ==
  Cardinality(Matching(s, tenantId, updatedAfter))

\* getAllForPolling on a store that does not change between its queries
RepoGetAllForPolling(s, tenantId, updatedAfter, limit, offset) ==
  {IF page.ok
   THEN [ok |-> TRUE, rows |-> page.rows,
         total |-> CountQuery(s, tenantId, updatedAfter)]
   ELSE DbError : page \in PageQuery(s, tenantId, updatedAfter, limit, offset)}

\* getAllForPolling whose count query, when it is rejected, counts as 0
MaskingGetAllForPolling(f, s, tenantId, updatedAfter, limit, offset) ==
  {IF page.ok
   THEN [ok |-> TRUE, rows |-> page.rows,
         total |-> IF f = 2 THEN 0 ELSE CountQuery(s, tenantId, updatedAfter)]
   ELSE DbError :
     page \in IF f = 1 THEN {DbError}
              ELSE PageQuery(s, tenantId, updatedAfter, limit, offset)}

\* getAllForPolling when pool.query rejects the f-th query of the request
\* (f = 1 the page query, f = 2 the count query, f = 0 neither): the
\* rejection is thrown to the caller
FaultyGetAllForPolling(f, s, tenantId, updatedAfter, limit, offset) ==
  {IF page.ok /\ f # 2
   THEN [ok |-> TRUE, rows |-> page.rows,
         total |-> CountQuery(s, tenantId, updatedAfter)]
   ELSE DbError :
     page \in IF f = 1 THEN {DbError}
              ELSE PageQuery(s, tenantId, updatedAfter, limit, offset)}

\* the lookup without its tenant condition
RowsByIdAnyTenant(s, id, tenantId) ==
  {k \in DOMAIN s : Uuid(k) = id /\ s[k].status = "CLOSED"}

\* WHERE id = $1 AND tenant_id = $2 AND status = 'CLOSED'
RowsById(s, id, tenantId) ==
  {k \in DOMAIN s :
     /\ Uuid(k) = id
     /\ s[k].tenant_id = tenantId
     /\ s[k].status = "CLOSED"}

\* repository getSnapshotById: the snapshot column, or null
RepoGetSnapshotById(s, id, tenantId) ==
  IF RowsById(s, id, tenantId) = {}
  THEN SnapshotJsonNull
  ELSE s[CHOOSE k \in RowsById(s, id, tenantId) : TRUE].snapshot

\* repository getById: the entity with its snapshot, or null
RepoGetById(s, id, tenantId) ==
  IF RowsById(s, id, tenantId) = {}
  THEN [found |-> FALSE, id |-> 0, status |-> "", updated_at |-> 0,
        snapshot |-> SnapshotJsonNull]
  ELSE LET k == CHOOSE r \in RowsById(s, id, tenantId) : TRUE
       IN  [found |-> TRUE, id |-> k, status |-> s[k].status,
            updated_at |-> s[k].updated_at, snapshot |-> s[k].snapshot]

(***************************************************************************)
(* Requests and responses                                                  *)
(***************************************************************************)
NoTenant == ""

ListRequest(tenantId, updatedAfter, limit, offset) ==
  [op |-> "getAllForPolling", tenantId |-> tenantId,
   updatedAfter |-> updatedAfter, limit |-> limit, offset |-> offset,
   id |-> NoId]

IdRequest(op, tenantId, id) ==
  [op |-> op, tenantId |-> tenantId, updatedAfter |-> Absent,
   limit |-> Absent, offset |-> Absent, id |-> id]

NoRequest == IdRequest("none", NoTenant, NoId)

Response(status, body) == [status |-> status, body |-> body]
NoResponse == Response(0, [none |-> TRUE])

ErrorBody(error, message) == [error |-> error, message |-> message]

Unauthorized == Response(401, ErrorBody("Unauthorized", "Missing tenant context"))
BadCursor ==
  Response(400, ErrorBody("Bad request",
    "Invalid updatedAfter format. Use ISO 8601 timestamp (e.g., 2026-02-15T10:00:00Z)"))
InvalidIdFormat ==
  Response(404, ErrorBody("Not found", "Invalid protocol ID format"))
ProtocolNotFound ==
  Response(404, ErrorBody("Not found", "Execution protocol not found"))
ListFailed ==
  Response(500, ErrorBody("Internal server error",
                          "Failed to retrieve execution protocols"))
GetByIdFailed ==
  Response(500, ErrorBody("Internal server error",
                          "Failed to retrieve execution protocol"))
GetSnapshotFailed ==
  Response(500, ErrorBody("Internal server error",
                          "Failed to retrieve execution protocol snapshot"))

\* A property of a JavaScript object is the empty set when it is undefined
\* and the set of its value otherwise.  v || undefined, where falsy is the
\* falsy value of the column's type:
OrUndefined(v, falsy) == IF v = falsy THEN {} ELSE {v}

\* ExecutionProtocol.fromRepositoryData({...row, snapshot: null}); a row has
\* no camel-case properties, and a Date is never falsy
fromRepositoryData(data) ==
  [id |-> {data.id},
   siteId |-> OrUndefined(data.site_id, ""),
   plantId |-> OrUndefined(data.plant_id, ""),
   tenantId |-> OrUndefined(data.tenant_id, ""),
   status |-> {data.status},
   createdAt |-> {data.created_at},
   closedAt |-> OrUndefined(data.closed_at, SqlNull),
   updatedAt |-> {data.updated_at},
   snapshot |-> {SnapshotJsonNull}]

\* ExecutionProtocol.toListMetadata()
toListMetadata(p) ==
  [id |-> p.id, siteId |-> p.siteId, plantId |-> p.plantId,
   status |-> p.status, closedAt |-> p.closedAt, updatedAt |-> p.updatedAt]

DateProperties == {"createdAt", "closedAt", "updatedAt"}

\* res.json of an object: JSON.stringify leaves out the undefined properties
\* and writes a Date as its ISO string
ResJson(obj) ==
  [f \in {g \in DOMAIN obj : obj[g] # {}} |->
     LET v == CHOOSE x \in obj[f] : TRUE
     IN  IF f \in DateProperties THEN ToISOString(v) ELSE v]

(***************************************************************************)
(* ExecutionProtocolController                                             *)
(***************************************************************************)
\* the limit without its cap at 100
ParsedLimitUncapped(raw) == ParseIntOr(raw, DefaultLimit)

\* Math.min(parseInt(limit, 10) || 50, 100)
ParsedLimit(raw) == Min(ParseIntOr(raw, DefaultLimit), MaxLimit)

\* the offset without its floor at 0
ParsedOffsetUnfloored(raw) == ParseIntOr(raw, DefaultOffset)

\* Math.max(parseInt(offset, 10) || 0, 0)
ParsedOffset(raw) == Max(ParseIntOr(raw, DefaultOffset), 0)

\* the validation of getAllForPolling: the response that ends the request
\* before the repository is called, or NoResponse
ListRejection(r) ==
  IF r.tenantId = NoTenant THEN Unauthorized
  ELSE IF Truthy(r.updatedAfter) /\ ~IsValidDate(r.updatedAfter) THEN BadCursor
  ELSE NoResponse

\* the repository call of getAllForPolling
ListCall(r) ==
  [op |-> "getAllForPolling", tenantId |-> r.tenantId,
   updatedAfter |-> r.updatedAfter, limit |-> ParsedLimit(r.limit),
   offset |-> ParsedOffset(r.offset), id |-> NoId]

\* res.json({protocols, pagination}) for a repository result
ListBody(r, result) ==
  [protocols |-> [i \in DOMAIN result.rows |->
                    ResJson(toListMetadata(fromRepositoryData(result.rows[i])))],
   pagination |-> [limit |-> ParsedLimit(r.limit),
                   offset |-> ParsedOffset(r.offset),
                   total |-> result.total]]

\* controller getAllForPolling: the responses it can give on store s
ListResponses(s, r) ==
  IF ListRejection(r) # NoResponse THEN {ListRejection(r)}
  ELSE LET c == ListCall(r)
       IN  {IF result.ok THEN Response(200, ListBody(r, result)) ELSE ListFailed :
              result \in RepoGetAllForPolling(s, c.tenantId, c.updatedAfter,
                                              c.limit, c.offset)}

\* controller getAllForPolling when the f-th query of the request is rejected
FaultyListResponses(f, s, r) ==
  IF ListRejection(r) # NoResponse THEN {ListRejection(r)}
  ELSE LET c == ListCall(r)
       IN  {IF result.ok THEN Response(200, ListBody(r, result)) ELSE ListFailed :
              result \in FaultyGetAllForPolling(f, s, c.tenantId, c.updatedAfter,
                                                c.limit, c.offset)}

\* the validation shared by getById and getSnapshotById
IdRejection(r) ==
  IF r.tenantId = NoTenant THEN Unauthorized
  ELSE IF ~isValidUUID(r.id) THEN InvalidIdFormat
  ELSE NoResponse

SnapshotCall(r) ==
  [op |-> "getSnapshotById", tenantId |-> r.tenantId, updatedAfter |-> Absent,
   limit |-> 0, offset |-> 0, id |-> r.id]

\* the catch block of getById and of getSnapshotById
FailedResponse(r) ==
  IF r.op = "getById" THEN GetByIdFailed ELSE GetSnapshotFailed

\* controller getById and getSnapshotById: both call repository
\* getSnapshotById and answer 404 for a falsy result; the query is rejected
\* when the id is not a text of the UUID type
SnapshotResponse(s, r) ==
  IF IdRejection(r) # NoResponse THEN IdRejection(r)
  ELSE IF ~IsUuidText(r.id) THEN FailedResponse(r)
  ELSE LET snapshot == RepoGetSnapshotById(s, r.id, r.tenantId)
       IN  IF snapshot = SnapshotJsonNull THEN ProtocolNotFound
           ELSE Response(200, snapshot)

\* controller getById and getSnapshotById when the f-th query of the request
\* is rejected; the request makes one query
FaultySnapshotResponse(f, s, r) ==
  IF IdRejection(r) = NoResponse /\ f = 1 THEN FailedResponse(r)
  ELSE SnapshotResponse(s, r)

\* the repository call made before the request is validated
CallsBeforeValidation(r) ==
  IF r.op = "getAllForPolling" THEN <<ListCall(r)>> ELSE <<SnapshotCall(r)>>

\* the repository calls a request makes
CallsOf(r) ==
  IF r.op = "getAllForPolling"
  THEN (IF ListRejection(r) # NoResponse THEN <<>> ELSE <<ListCall(r)>>)
  ELSE (IF IdRejection(r) # NoResponse THEN <<>> ELSE <<SnapshotCall(r)>>)

(***************************************************************************)
(* Inputs                                                                  *)
(***************************************************************************)
TenantInputs == Tenants \cup {NoTenant}
TimeCursors == {IsoText(t) : t \in Times}
CursorInputs == {Absent, EmptyText, OtherText} \cup TimeCursors
LimitInputs ==
  {Absent, OtherText} \cup {IntText(n) : n \in {-5, 0, 1, 2, MaxLimit, 500}}
OffsetInputs ==
  {Absent, OtherText} \cup {IntText(n) : n \in {-5, 0, 1, 2}}
IdInputs == {Uuid(k) : k \in 1..(MaxRecords + 1)} \cup {UuidV1, NotAUuid}

\* the cursors of the testing guide: 1, 5, 10 and 20 February 2026
SeedCursors == {IsoText(SeedTime(d, 0, 0)) : d \in {32, 36, 41, 51}}

\* every limit at the default offset, and every offset with a page of one
\* or two rows
PaginationInputs ==
  {<<l, Absent>> : l \in LimitInputs}
  \cup {<<IntText(l), f>> : l \in {1, 2}, f \in OffsetInputs}

\* every pagination input under every tenant and time cursor; the other
\* cursor texts and the missing tenant with the default pagination
ListRequests ==
  {ListRequest(t, u, p[1], p[2]) :
     t \in Tenants, u \in {Absent} \cup TimeCursors, p \in PaginationInputs}
  \cup {ListRequest(t, u, Absent, Absent) :
          t \in TenantInputs, u \in CursorInputs}

IdRequests(op) == {IdRequest(op, t, id) : t \in TenantInputs, id \in IdInputs}

\* process.env.API_KEYS of the testing guide
TestingApiKeys ==
  [k \in {"test-key-acme", "test-key-globex"} |->
     IF k = "test-key-acme" THEN "tenant-acme" ELSE "tenant-globex"]
TestingEnv == [valid |-> TRUE, API_KEYS |-> TestingApiKeys]

\* no request at the router
NoHeaders == [apiKey |-> "", reached |-> "none"]

\* the seed script is not running
NoSeed == [pc |-> "off", before |-> EmptyStore, work |-> EmptyStore, next |-> 0]

\* no LIST request is between its page query and its count query
NoInflight == [page |-> DbError, during |-> {}]

\* no protocol execution has been created
NoExecution ==
  [status |-> "none", webhookUrl |-> FALSE, step |-> <<"off", "off">>,
   hooks |-> <<>>, history |-> <<>>]

NoClient ==
  [mode |-> "none", tenantId |-> NoTenant, limit |-> 0, cursor |-> Absent,
   offset |-> 0, seen |-> {}, again |-> {}, pc |-> "off"]

(***************************************************************************)
(* The server, one request at a time, and the writers of the table.        *)
(***************************************************************************)
Init ==
  /\ store = EmptyStore
  /\ phase = "idle"
  /\ req = NoRequest
  /\ calls = <<>>
  /\ resp = NoResponse
  /\ client = NoClient
  /\ faults = 0
  /\ env = TestingEnv
  /\ headers = NoHeaders
  /\ seed = NoSeed
  /\ inflight = NoInflight
  /\ exec = NoExecution

\* seed: INSERT INTO execution_protocols ... of a new id
InsertRecord(k, row) ==
  /\ phase = "idle"
  /\ k \notin DOMAIN store
  /\ store' = [j \in DOMAIN store \cup {k} |-> IF j = k THEN row ELSE store[j]]
  /\ UNCHANGED <<phase, req, calls, resp, client, faults, authVars, procVars>>

\* seed: ... ON CONFLICT (id) DO UPDATE SET snapshot, updated_at
UpsertRecord(k, row) ==
  /\ phase = "idle"
  /\ k \in DOMAIN store
  /\ store' = [store EXCEPT ![k].snapshot = row.snapshot,
                            ![k].updated_at = row.updated_at]
  /\ store' # store
  /\ UNCHANGED <<phase, req, calls, resp, client, faults, authVars, procVars>>

\* seed: DELETE FROM execution_protocols
DeleteRecords ==
  /\ phase = "idle"
  /\ store # EmptyStore
  /\ store' = EmptyStore
  /\ UNCHANGED <<phase, req, calls, resp, client, faults, authVars, procVars>>

\* GET /api/v1/execution-protocols
GetAllForPolling(r) ==
  /\ phase = "idle"
  /\ req' = r
  /\ calls' = CallsOf(r)
  /\ resp' \in FaultyListResponses(faults, store, r)
  /\ phase' = "responded"
  /\ UNCHANGED <<store, client, faults, authVars, procVars>>

\* GET /api/v1/execution-protocols/:id
GetById(r) ==
  /\ phase = "idle"
  /\ req' = r
  /\ calls' = CallsOf(r)
  /\ resp' = FaultySnapshotResponse(faults, store, r)
  /\ phase' = "responded"
  /\ UNCHANGED <<store, client, faults, authVars, procVars>>

\* a snapshot endpoint that deletes the row it was asked for
GetSnapshotByIdConsuming(r) ==
  /\ phase = "idle"
  /\ req' = r
  /\ calls' = CallsOf(r)
  /\ resp' = FaultySnapshotResponse(faults, store, r)
  /\ phase' = "responded"
  /\ store' = [k \in {j \in DOMAIN store : Uuid(j) # r.id} |-> store[k]]
  /\ UNCHANGED <<client, faults, authVars, procVars>>

\* GET /api/v1/execution-protocols/:id/snapshot
GetSnapshotById(r) ==
  /\ phase = "idle"
  /\ req' = r
  /\ calls' = CallsOf(r)
  /\ resp' = FaultySnapshotResponse(faults, store, r)
  /\ phase' = "responded"
  /\ UNCHANGED <<store, client, faults, authVars, procVars>>

HealthRequest == IdRequest("health", NoTenant, NoId)

\* GET /api/v1/health: needs no key and reads no table
Health ==
  /\ phase = "idle"
  /\ req' = HealthRequest
  /\ calls' = <<>>
  /\ resp' = Response(200, [status |-> "ok",
                            service |-> "Execution Protocol Integration API",
                            version |-> "1.0.0"])
  /\ phase' = "responded"
  /\ UNCHANGED <<store, client, faults, authVars, procVars>>

\* the response has reached the caller; the server awaits the next request
Deliver ==
  /\ phase = "responded"
  /\ phase' = "idle"
  /\ req' = NoRequest
  /\ calls' = <<>>
  /\ resp' = NoResponse
  /\ headers' = NoHeaders
  /\ UNCHANGED <<store, client, faults, env, procVars>>

Next ==
  \/ \E k \in RowKeys, row \in ListRows : InsertRecord(k, row)
  \/ \E k \in RowKeys, row \in ListRows : UpsertRecord(k, row)
  \/ DeleteRecords
  \/ \E r \in ListRequests : GetAllForPolling(r)
  \/ \E r \in IdRequests("getById") : GetById(r)
  \/ \E r \in IdRequests("getSnapshotById") : GetSnapshotById(r)
  \/ Health
  \/ Deliver

Spec == Init /\ [][Next]_vars

\* the snapshot endpoints over rows of every snapshot value
SnapshotNext ==
  \/ \E k \in RowKeys, row \in SnapshotRows : InsertRecord(k, row)
  \/ \E k \in RowKeys, row \in SnapshotRows : UpsertRecord(k, row)
  \/ DeleteRecords
  \/ \E r \in IdRequests("getById") : GetById(r)
  \/ \E r \in IdRequests("getSnapshotById") : GetSnapshotById(r)
  \/ Deliver

SpecSnapshot == Init /\ [][SnapshotNext]_vars

(***************************************************************************)
(* The server on a connection pool that rejects queries.                   *)
(***************************************************************************)
Faults == 0..2

\* pool.query starts or stops rejecting: from now on the n-th query of a
\* request is rejected (n = 0: none)
Fault(n) ==
  /\ phase = "idle"
  /\ n # faults
  /\ faults' = n
  /\ UNCHANGED <<store, phase, req, calls, resp, client, authVars, procVars>>

\* LIST requests with the default pagination
DefaultPageRequests ==
  {ListRequest(t, u, Absent, Absent) :
     t \in TenantInputs, u \in {Absent, OtherText} \cup TimeCursors}

FailureNext ==
  \/ \E k \in RowKeys, row \in SnapshotRows : InsertRecord(k, row)
  \/ \E k \in RowKeys, row \in SnapshotRows : UpsertRecord(k, row)
  \/ DeleteRecords
  \/ \E n \in Faults : Fault(n)
  \/ \E r \in DefaultPageRequests : GetAllForPolling(r)
  \/ \E r \in IdRequests("getById") : GetById(r)
  \/ \E r \in IdRequests("getSnapshotById") : GetSnapshotById(r)
  \/ Health
  \/ Deliver

SpecFailure == Init /\ [][FailureNext]_vars

\* the LIST endpoint over rows of every site_id, plant_id and closed_at
MetadataNext ==
  \/ \E k \in RowKeys, row \in MetadataRows : InsertRecord(k, row)
  \/ DeleteRecords
  \/ \E r \in DefaultPageRequests : GetAllForPolling(r)
  \/ Deliver

SpecMetadata == Init /\ [][MetadataNext]_vars

(***************************************************************************)
(* The router of the execution-protocols endpoints: authMiddleware, then   *)
(* the handler of the route.                                               *)
(***************************************************************************)
NoApiKey == ""

\* the properties every object parsed by JSON.parse inherits, with the text
\* the database driver sends for their value
ObjectPrototype ==
  [k \in {"constructor"} |-> "function Object() { [native code] }"]

\* obj[key] of a parsed JSON object; undefined is the empty text
Lookup(obj, key) ==
  IF key \in DOMAIN obj THEN obj[key]
  ELSE IF key \in DOMAIN ObjectPrototype THEN ObjectPrototype[key]
  ELSE ""

MissingApiKey == Response(401, [error |-> "Missing X-API-Key header"])
InvalidApiKey == Response(401, [error |-> "Invalid API key"])
Misconfigured ==
  Response(500, [error |-> "Server misconfiguration: invalid API_KEYS"])

\* authMiddleware: the response that ends the request, or NoResponse and
\* the tenant id attached to the request
authMiddleware(e, apiKey) ==
  IF apiKey = NoApiKey THEN [resp |-> MissingApiKey, tenantId |-> NoTenant]
  ELSE IF ~e.valid THEN [resp |-> Misconfigured, tenantId |-> NoTenant]
  ELSE IF Lookup(e.API_KEYS, apiKey) = ""
  THEN [resp |-> InvalidApiKey, tenantId |-> NoTenant]
  ELSE [resp |-> NoResponse, tenantId |-> Lookup(e.API_KEYS, apiKey)]

\* process.env.API_KEYS: the mapping of the testing guide, a mapping of one
\* key, unset ("{}"), and text that is not JSON
EnvInputs ==
  {TestingEnv,
   [valid |-> TRUE, API_KEYS |-> [k \in {"test-key-acme"} |-> "tenant-acme"]],
   [valid |-> TRUE, API_KEYS |-> [k \in {} |-> ""]],
   [valid |-> FALSE, API_KEYS |-> [k \in {} |-> ""]]}

ApiKeyInputs ==
  {NoApiKey, "test-key-acme", "test-key-globex", "invalid-key", "constructor"}

\* the requests as they arrive, before a tenant is attached
RoutedRequests ==
  {ListRequest(NoTenant, u, l, Absent) :
     u \in {Absent} \cup SeedCursors, l \in {Absent, IntText(1)}}
  \cup {IdRequest(op, NoTenant, id) :
          op \in {"getById", "getSnapshotById"},
          id \in {Uuid(k) : k \in 1..6} \cup {UuidV1, NotAUuid}}

\* a request to an execution-protocols route
Route(apiKey, r) ==
  LET auth == authMiddleware(env, apiKey)
      authed == [r EXCEPT !.tenantId = auth.tenantId]
  IN  /\ phase = "idle"
      /\ phase' = "responded"
      /\ IF auth.resp # NoResponse
         THEN /\ headers' = [apiKey |-> apiKey, reached |-> "none"]
              /\ req' = NoRequest
              /\ calls' = <<>>
              /\ resp' = auth.resp
         ELSE /\ headers' = [apiKey |-> apiKey, reached |-> r.op]
              /\ req' = authed
              /\ calls' = CallsOf(authed)
              /\ resp' \in IF r.op = "getAllForPolling"
                           THEN FaultyListResponses(faults, store, authed)
                           ELSE {FaultySnapshotResponse(faults, store, authed)}
      /\ UNCHANGED <<store, client, faults, env, procVars>>

AuthInit ==
  /\ store = SeededStore
  /\ phase = "idle"
  /\ req = NoRequest
  /\ calls = <<>>
  /\ resp = NoResponse
  /\ client = NoClient
  /\ faults = 0
  /\ env \in EnvInputs
  /\ headers = NoHeaders
  /\ seed = NoSeed
  /\ inflight = NoInflight
  /\ exec = NoExecution

AuthNext ==
  \/ \E apiKey \in ApiKeyInputs, r \in RoutedRequests : Route(apiKey, r)
  \/ Deliver

SpecAuth == AuthInit /\ [][AuthNext]_vars

(***************************************************************************)
(* The seed script.  seed() runs on one pooled client: BEGIN, DELETE FROM, *)
(* one INSERT ... ON CONFLICT per seed record, COMMIT; its catch block     *)
(* issues ROLLBACK.  seed.before is the table when BEGIN ran, seed.work    *)
(* the table as the transaction sees it, seed.next the index of the next   *)
(* record to insert; store is the committed table other sessions see.      *)
(***************************************************************************)
\* pool.connect and BEGIN
SeedBegin ==
  /\ seed.pc = "off"
  /\ phase = "idle"
  /\ seed' = [pc |-> "delete", before |-> store, work |-> store, next |-> 1]
  /\ UNCHANGED <<store, phase, req, calls, resp, client, faults, authVars,
                 inflight, exec>>

\* DELETE FROM execution_protocols; ok says whether the statement succeeds
SeedDelete(ok) ==
  /\ seed.pc = "delete"
  /\ seed' = IF ok THEN [seed EXCEPT !.pc = "insert", !.work = EmptyStore]
             ELSE [seed EXCEPT !.pc = "rollback"]
  /\ UNCHANGED <<store, phase, req, calls, resp, client, faults, authVars,
                 inflight, exec>>

\* one pass of the insert loop
SeedInsert(ok) ==
  /\ seed.pc = "insert"
  /\ seed.next <= Len(generateSeedData)
  /\ seed' = IF ok
             THEN [seed EXCEPT
                     !.work = InsertOnConflict(@, generateSeedData[seed.next]),
                     !.next = @ + 1]
             ELSE [seed EXCEPT !.pc = "rollback"]
  /\ UNCHANGED <<store, phase, req, calls, resp, client, faults, authVars,
                 inflight, exec>>

\* COMMIT after the loop
SeedCommit ==
  /\ seed.pc = "insert"
  /\ seed.next > Len(generateSeedData)
  /\ store' = seed.work
  /\ seed' = [seed EXCEPT !.pc = "done"]
  /\ UNCHANGED <<phase, req, calls, resp, client, faults, authVars, inflight,
                 exec>>

\* a catch block on statements that were not in a transaction: what they
\* wrote stays
SeedRollbackAutocommit ==
  /\ seed.pc = "rollback"
  /\ store' = seed.work
  /\ seed' = [seed EXCEPT !.pc = "failed"]
  /\ UNCHANGED <<phase, req, calls, resp, client, faults, authVars, inflight,
                 exec>>

\* the catch block: ROLLBACK, then the error is thrown again
SeedRollback ==
  /\ seed.pc = "rollback"
  /\ store' = store
  /\ seed' = [seed EXCEPT !.pc = "failed"]
  /\ UNCHANGED <<phase, req, calls, resp, client, faults, authVars, inflight,
                 exec>>

\* client.release, pool.end and the end of the process
SeedExit ==
  /\ seed.pc \in {"done", "failed"}
  /\ seed' = NoSeed
  /\ UNCHANGED <<store, phase, req, calls, resp, client, faults, authVars,
                 inflight, exec>>

SeedNext ==
  \/ \E k \in RowKeys, row \in ListRows : seed.pc = "off" /\ InsertRecord(k, row)
  \/ \E k \in RowKeys, row \in ListRows : seed.pc = "off" /\ UpsertRecord(k, row)
  \/ SeedBegin
  \/ \E ok \in BOOLEAN : SeedDelete(ok)
  \/ \E ok \in BOOLEAN : SeedInsert(ok)
  \/ SeedCommit
  \/ SeedRollback
  \/ SeedExit

SpecSeed == Init /\ [][SeedNext]_vars

(***************************************************************************)
(* The server on a table of one tenant with more rows than the largest     *)
(* page, and the repository called without the controller in front of it.  *)
(***************************************************************************)
BulkStore ==
  [k \in 1..(MaxLimit + 1) |->
     [tenant_id |-> "tenant-acme", status |-> "CLOSED", updated_at |-> k,
      snapshot |-> SnapshotObject, site_id |-> "site-l3-berlin",
      plant_id |-> "plant-t17", created_at |-> 0, closed_at |-> 0]]

BulkRequests ==
  {ListRequest(t, Absent, l, o) :
     t \in Tenants, l \in LimitInputs, o \in OffsetInputs}

\* repository.getAllForPolling({tenantId, updatedAfter, limit, offset})
\* called by a caller other than the controller
RepositoryCall(tenantId, limit, offset) ==
  /\ phase = "idle"
  /\ \E result \in RepoGetAllForPolling(store, tenantId, Absent, limit,
                                         offset) :
       inflight' = [page |-> result, during |-> {store}]
  /\ UNCHANGED <<store, phase, req, calls, resp, client, faults, authVars,
                 seed, exec>>

BulkInit ==
  /\ store = BulkStore
  /\ phase = "idle"
  /\ req = NoRequest
  /\ calls = <<>>
  /\ resp = NoResponse
  /\ client = NoClient
  /\ faults = 0
  /\ env = TestingEnv
  /\ headers = NoHeaders
  /\ seed = NoSeed
  /\ inflight = NoInflight
  /\ exec = NoExecution

BulkNext ==
  \/ \E r \in BulkRequests : GetAllForPolling(r)
  \/ \E t \in Tenants, l \in {1, MaxLimit, MaxLimit + 1, 500},
         o \in {0, 1, 2} : RepositoryCall(t, l, o)
  \/ Deliver

SpecBulk == BulkInit /\ [][BulkNext]_vars

(***************************************************************************)
(* LIST while another process inserts.  getAllForPolling awaits two        *)
(* pool.query calls, the page query and then the count query, outside a    *)
(* transaction: statements of other sessions can commit between them.      *)
(* inflight.page is the result of the page query and inflight.during the   *)
(* states the table has been in since the page query ran.                  *)
(***************************************************************************)
\* the controller has validated the request and the database has executed
\* the page query
ListPageQuery(r) ==
  LET c == ListCall(r)
  IN  /\ phase = "idle"
      /\ ListRejection(r) = NoResponse
      /\ req' = r
      /\ calls' = CallsOf(r)
      /\ \E page \in PageQuery(store, c.tenantId, c.updatedAfter, c.limit,
                                c.offset) :
           /\ inflight' = [page |-> page, during |-> {store}]
           /\ IF page.ok
              THEN phase' = "counting" /\ resp' = resp
              ELSE phase' = "responded" /\ resp' = ListFailed
      /\ UNCHANGED <<store, client, faults, authVars, seed, exec>>

\* another session commits INSERT INTO execution_protocols
ConcurrentInsert(k, row) ==
  LET inserted == [j \in DOMAIN store \cup {k} |->
                     IF j = k THEN row ELSE store[j]]
  IN  /\ phase = "counting"
      /\ k \notin DOMAIN store
      /\ store' = inserted
      /\ inflight' = [inflight EXCEPT !.during = @ \cup {inserted}]
      /\ UNCHANGED <<phase, req, calls, resp, client, faults, authVars, seed,
                     exec>>

\* the database executes the count query and the controller answers
ListCountQuery ==
  LET c == ListCall(req)
      result == [inflight.page EXCEPT
                   !.total = CountQuery(store, c.tenantId, c.updatedAfter)]
  IN  /\ phase = "counting"
      /\ phase' = "responded"
      /\ resp' = Response(200, ListBody(req, result))
      /\ UNCHANGED <<store, req, calls, client, faults, authVars, procVars>>

ConcurrentRequests ==
  {ListRequest(t, Absent, l, o) :
     t \in Tenants, l \in {Absent, IntText(1), IntText(-1)},
     o \in {Absent, IntText(1)}}

ConcurrentNext ==
  \/ \E r \in ConcurrentRequests : ListPageQuery(r)
  \/ \E k \in RowKeys, row \in ListRows : ConcurrentInsert(k, row)
  \/ ListCountQuery
  \/ \E k \in RowKeys, row \in ListRows : InsertRecord(k, row)
  \/ Deliver

SpecConcurrent == Init /\ [][ConcurrentNext]_vars

(***************************************************************************)
(* POST /api/v1/protocol-executions and the simulated lifecycle of the     *)
(* execution it creates.  exec.status is the status column of the row,     *)
(* exec.history the values it has held, exec.step the position of the two  *)
(* timer callbacks and exec.hooks the webhooks handed to fetch, in order.  *)
(*   waiting       the timer is set                                        *)
(*   updating      the callback has called updateStatus; the UPDATE is on  *)
(*                 its way to the database                                 *)
(*   updated       the UPDATE has been executed                            *)
(*   sending       the callback has resumed and called fetch               *)
(*   done, updateFailed, webhookFailed   the callback has ended            *)
(***************************************************************************)
WEBHOOK_SECRET == "whsec_proto_default"
LifecycleStatus == <<"in_progress", "completed">>

\* HMAC-SHA256 of the payload under the shared secret
signPayload(payload) == [hmac |-> payload, key |-> WEBHOOK_SECRET]

\* the request fetch is given by sendWebhook
Webhook(payload) ==
  [body |-> payload, signature |-> <<"sha256=", signPayload(payload)>>]

\* req.body: protocolId and siteId given or not, with or without webhookUrl
BodyInputs ==
  [protocolId : {"safety-check-v1", ""}, siteId : {"site-001", ""},
   webhookUrl : BOOLEAN]

ExecutionRequest(tenantId) ==
  [op |-> "createExecution", tenantId |-> tenantId, updatedAfter |-> Absent,
   limit |-> Absent, offset |-> Absent, id |-> NoId]

MissingFields ==
  Response(400, [error |-> "Missing required fields: protocolId, siteId"])
Created(tenantId) ==
  Response(201, [executionId |-> 1, status |-> "initialized",
                 tenantId |-> tenantId])
CreateFailed == Response(500, [error |-> "Internal server error"])

\* createExecution; ok says whether the INSERT is executed or rejected
CreateExecution(tenantId, body, ok) ==
  /\ phase = "idle"
  /\ exec = NoExecution
  /\ phase' = "responded"
  /\ req' = ExecutionRequest(tenantId)
  /\ calls' = <<>>
  /\ IF body.protocolId = "" \/ body.siteId = ""
     THEN resp' = MissingFields /\ exec' = exec
     ELSE IF ~ok
     THEN resp' = CreateFailed /\ exec' = exec
     ELSE /\ resp' = Created(tenantId)
          /\ exec' = [status |-> "initialized",
                      webhookUrl |-> body.webhookUrl,
                      step |-> IF body.webhookUrl THEN <<"waiting", "waiting">>
                               ELSE <<"off", "off">>,
                      hooks |-> <<>>,
                      history |-> <<"initialized">>]
  /\ UNCHANGED <<store, client, faults, authVars, seed, inflight>>

\* the timer that starts after the first timer was due
TimerFiresChained(i) ==
  /\ exec.step[i] = "waiting"
  /\ i = 2 => exec.step[1] \in {"done"}
  /\ exec' = [exec EXCEPT !.step[i] = "updating"]
  /\ UNCHANGED <<store, phase, req, calls, resp, client, faults, authVars,
                 seed, inflight>>

\* setTimeout callback i starts (the 2 s timer before the 5 s timer) and
\* calls ProtocolExecution.updateStatus
TimerFires(i) ==
  /\ exec.step[i] = "waiting"
  /\ i = 2 => exec.step[1] # "waiting"
  /\ exec' = [exec EXCEPT !.step[i] = "updating"]
  /\ UNCHANGED <<store, phase, req, calls, resp, client, faults, authVars,
                 seed, inflight>>

\* the database executes UPDATE protocol_executions SET status = ...
UpdateStatus(i) ==
  /\ exec.step[i] = "updating"
  /\ exec' = [exec EXCEPT !.step[i] = "updated",
                          !.status = LifecycleStatus[i],
                          !.history = Append(@, LifecycleStatus[i])]
  /\ UNCHANGED <<store, phase, req, calls, resp, client, faults, authVars,
                 seed, inflight>>

\* pool.query rejects the UPDATE: the callback's catch block ends it
UpdateFails(i) ==
  /\ exec.step[i] = "updating"
  /\ exec' = [exec EXCEPT !.step[i] = "updateFailed"]
  /\ UNCHANGED <<store, phase, req, calls, resp, client, faults, authVars,
                 seed, inflight>>

\* the callback resumes with the updated row and calls sendWebhook
SendWebhook(i) ==
  /\ exec.step[i] = "updated"
  /\ exec' = [exec EXCEPT
                !.step[i] = "sending",
                !.hooks = Append(@, Webhook([executionId |-> 1,
                                             status |-> LifecycleStatus[i]]))]
  /\ UNCHANGED <<store, phase, req, calls, resp, client, faults, authVars,
                 seed, inflight>>

\* fetch resolves (delivered TRUE) or rejects
WebhookSettles(i, delivered) ==
  /\ exec.step[i] = "sending"
  /\ exec' = [exec EXCEPT
                !.step[i] = IF delivered THEN "done" ELSE "webhookFailed"]
  /\ UNCHANGED <<store, phase, req, calls, resp, client, faults, authVars,
                 seed, inflight>>

LifecycleNext ==
  \/ \E t \in Tenants, body \in BodyInputs, ok \in BOOLEAN :
       CreateExecution(t, body, ok)
  \/ \E i \in 1..2 : TimerFires(i)
  \/ \E i \in 1..2 : UpdateStatus(i)
  \/ \E i \in 1..2 : UpdateFails(i)
  \/ \E i \in 1..2 : SendWebhook(i)
  \/ \E i \in 1..2, delivered \in BOOLEAN : WebhookSettles(i, delivered)
  \/ Deliver

SpecLifecycle == Init /\ [][LifecycleNext]_vars

\* timers fire, queries and fetches settle
LifecycleFairness ==
  \A i \in 1..2 :
    /\ WF_vars(TimerFires(i))
    /\ WF_vars(UpdateStatus(i) \/ UpdateFails(i))
    /\ WF_vars(SendWebhook(i))
    /\ WF_vars(\E delivered \in BOOLEAN : WebhookSettles(i, delivered))

SpecLifecycleFair == Init /\ [][LifecycleNext]_vars /\ LifecycleFairness

(***************************************************************************)
(* The server on the table the seed script leaves.                         *)
(***************************************************************************)
SeededRequests ==
  {ListRequest(t, u, p[1], p[2]) :
     t \in TenantInputs, u \in {Absent} \cup SeedCursors, p \in PaginationInputs}

SeededInit ==
  /\ store = SeededStore
  /\ phase = "idle"
  /\ req = NoRequest
  /\ calls = <<>>
  /\ resp = NoResponse
  /\ client = NoClient
  /\ faults = 0
  /\ env = TestingEnv
  /\ headers = NoHeaders
  /\ seed = NoSeed
  /\ inflight = NoInflight
  /\ exec = NoExecution

SeededNext ==
  \/ \E r \in SeededRequests : GetAllForPolling(r)
  \/ Deliver

SpecSeeded == SeededInit /\ [][SeededNext]_vars

TypeOK ==
  /\ faults \in Faults
  /\ DOMAIN store \subseteq RowKeys \cup SeedKeys
  /\ \A k \in DOMAIN store :
       \/ store[k] \in RowsWith(SnapshotValues) \cup MetadataRows
       \/ \E i \in DOMAIN generateSeedData : store[k] = SeedRow(generateSeedData[i])
  /\ phase \in {"idle", "counting", "responded"}
  /\ resp.status \in {0, 200, 201, 400, 401, 404, 500}

(***************************************************************************)
(* A polling consumer on a table that does not change.                     *)
(*   sync:   polls at offset 0 and moves its cursor to the maximum         *)
(*           updatedAt of the items it was given, until a poll is empty    *)
(*   paging: keeps its cursor and requests offsets 0, L, 2L, ... until a   *)
(*           page is empty                                                 *)
(* seen holds the ids delivered so far, again those delivered twice.       *)
(***************************************************************************)
PageSizes == (1..MaxRecords) \cup {MaxLimit}

Client(mode, tenantId, limit, cursor) ==
  [mode |-> mode, tenantId |-> tenantId, limit |-> limit, cursor |-> cursor,
   offset |-> 0, seen |-> {}, again |-> {}, pc |-> "poll"]

ClientRequest(c) ==
  ListRequest(c.tenantId, c.cursor, IntText(c.limit), IntText(c.offset))

ItemIds(items) == {items[i].id : i \in DOMAIN items}

\* the maximum updatedAt of a non-empty item list
MaxUpdatedAt(items) ==
  CHOOSE m \in {items[i].updatedAt : i \in DOMAIN items} :
    \A i \in DOMAIN items : items[i].updatedAt <= m

Received(c, items) ==
  [c EXCEPT !.seen = c.seen \cup ItemIds(items),
            !.again = c.again \cup (c.seen \cap ItemIds(items))]

ClientInit(mode, cursors) ==
  /\ store \in StoresOver(RowKeys, ListRows)
  /\ phase = "idle"
  /\ req = NoRequest
  /\ calls = <<>>
  /\ resp = NoResponse
  /\ client \in {Client(mode, t, l, u) :
                   t \in Tenants, l \in PageSizes, u \in cursors}
  /\ faults = 0
  /\ env = TestingEnv
  /\ headers = NoHeaders
  /\ seed = NoSeed
  /\ inflight = NoInflight
  /\ exec = NoExecution

AdvanceCursor(c, items) ==
  [c EXCEPT !.cursor = IsoText(FromISOString(MaxUpdatedAt(items)))]

AdvanceOffset(c, items) == [c EXCEPT !.offset = c.offset + c.limit]

\* one request of the consumer and what it does with the response
Exchange ==
  /\ client.pc = "poll"
  /\ \E rsp \in ListResponses(store, ClientRequest(client)) :
       /\ req' = ClientRequest(client)
       /\ calls' = CallsOf(ClientRequest(client))
       /\ resp' = rsp
       /\ client' = IF rsp.status # 200 THEN [client EXCEPT !.pc = "failed"]
                    ELSE IF rsp.body.protocols = <<>>
                    THEN [client EXCEPT !.pc = "done"]
                    ELSE IF client.mode = "sync"
                    THEN AdvanceCursor(Received(client, rsp.body.protocols),
                                       rsp.body.protocols)
                    ELSE AdvanceOffset(Received(client, rsp.body.protocols),
                                       rsp.body.protocols)
  /\ UNCHANGED <<store, phase, faults, authVars, procVars>>

SyncInit == ClientInit("sync", {Absent})
SyncPoll == client.mode = "sync" /\ Exchange
SyncNext == SyncPoll
SpecSync == SyncInit /\ [][SyncNext]_vars

PagingInit == ClientInit("paging", {Absent} \cup TimeCursors)
FetchPage == client.mode = "paging" /\ Exchange
PagingNext == FetchPage
SpecPaging == PagingInit /\ [][PagingNext]_vars

(***************************************************************************)
(* Properties                                                              *)
(***************************************************************************)
IsList == req.op = "getAllForPolling"
IsGet == req.op \in {"getById", "getSnapshotById"}
ListOk == IsList /\ resp.status = 200
Items == resp.body.protocols
Pagination == resp.body.pagination

\* the rows of one tenant
OwnedBy(s, tenantId) ==
  [k \in {j \in DOMAIN s : s[j].tenant_id = tenantId} |-> s[k]]

\* the CLOSED rows of a tenant after a time cursor, if one is given
ClosedAfter(s, tenantId, updatedAfter) ==
  {k \in DOMAIN s :
     /\ s[k].tenant_id = tenantId
     /\ s[k].status = "CLOSED"
     /\ (updatedAfter.kind = "iso" => s[k].updated_at > updatedAfter.n)}

\* C1: a LIST response under a tenant holds only rows that tenant owns, its
\* total counts only that tenant's rows, and the responses the request can
\* get are those it gets on the table with every other tenant's rows removed
\* (so no insert, delete or change of another tenant's rows changes them).
C1_TenantIsolation ==
  IsList =>
    /\ ListResponses(store, req) =
         ListResponses(OwnedBy(store, req.tenantId), req)
    /\ resp.status = 200 =>
         /\ \A i \in DOMAIN Items :
              /\ Items[i].id \in DOMAIN store
              /\ store[Items[i].id].tenant_id = req.tenantId
         /\ Pagination.total <=
              Cardinality(DOMAIN OwnedBy(store, req.tenantId))

\* a tenant is given its own rows while another tenant has CLOSED rows
\* that pass the same cursor
C1_Witness ==
  /\ ListOk
  /\ Items # <<>>
  /\ \E k \in DOMAIN store :
       /\ store[k].tenant_id # req.tenantId
       /\ store[k].status = "CLOSED"
       /\ (Truthy(req.updatedAfter) => store[k].updated_at > req.updatedAfter.n)

\* a well-formed id that no row has
AbsentId == Uuid(MaxRecords + 1)

\* the row with a given id is another tenant's, or the tenant's own but not
\* CLOSED
HiddenRow(k) ==
  /\ k \in DOMAIN store
  /\ Uuid(k) = req.id
  /\ \/ store[k].tenant_id # req.tenantId
     \/ store[k].status # "CLOSED"

\* C2: GET_SNAPSHOT for the id of another tenant's row, or of an own row
\* that is not CLOSED, is answered with the same status and body as
\* GET_SNAPSHOT for a well-formed id that no row has: 404 not found.
C2_UniformNotFound ==
  (IsGet /\ req.tenantId # NoTenant /\ \E k \in RowKeys : HiddenRow(k)) =>
    /\ resp.status = 404
    /\ resp = SnapshotResponse(store, [req EXCEPT !.id = AbsentId])

\* the id requested is that of a CLOSED row with a snapshot document that
\* another tenant owns
C2_Witness ==
  /\ IsGet
  /\ req.tenantId # NoTenant
  /\ resp.status = 404
  /\ \E k \in DOMAIN store :
       /\ Uuid(k) = req.id
       /\ store[k].tenant_id # req.tenantId
       /\ store[k].status = "CLOSED"
       /\ store[k].snapshot = SnapshotObject

\* C3: no operation returns a row whose status is not CLOSED, whoever owns
\* it: not the items or the total of a LIST response, not a snapshot
\* response, and not the repository's getById and getSnapshotById.
C3_OnlyClosed ==
  /\ ListOk =>
       /\ \A i \in DOMAIN Items :
            /\ Items[i].id \in DOMAIN store
            /\ store[Items[i].id].status = "CLOSED"
            /\ Items[i].status = "CLOSED"
       /\ Pagination.total <=
            Cardinality({k \in DOMAIN store : store[k].status = "CLOSED"})
  /\ IsGet =>
       /\ resp.status = 200 =>
            \E k \in DOMAIN store :
              Uuid(k) = req.id /\ store[k].status = "CLOSED"
       /\ RepoGetById(store, req.id, req.tenantId).found =>
            RepoGetById(store, req.id, req.tenantId).status = "CLOSED"
       /\ (\A k \in DOMAIN store :
             Uuid(k) = req.id => store[k].status # "CLOSED") =>
            /\ ~RepoGetById(store, req.id, req.tenantId).found
            /\ RepoGetSnapshotById(store, req.id, req.tenantId) =
                 SnapshotJsonNull

\* a tenant lists while it owns a row that is not CLOSED and passes the
\* cursor
C3_Witness ==
  /\ ListOk
  /\ Items # <<>>
  /\ \E k \in DOMAIN store :
       /\ store[k].tenant_id = req.tenantId
       /\ store[k].status # "CLOSED"
       /\ (Truthy(req.updatedAfter) => store[k].updated_at > req.updatedAfter.n)

\* C4: in a sequence of polls in which each cursor is the maximum updatedAt
\* of the previous response, on an unchanged table, no id is delivered in
\* two responses.
C4_NoRedelivery == client.mode = "sync" => client.again = {}

\* C5: a consumer that polls at offset 0 and moves its cursor to the maximum
\* updatedAt of each response has, when it receives an empty response, been
\* given every CLOSED row of its tenant.
C5_AtLeastOnce ==
  (client.mode = "sync" /\ client.pc = "done") =>
    ClosedAfter(store, client.tenantId, Absent) \subseteq client.seen

\* C6: the pages at offsets 0, L, 2L, ... of one filter on an unchanged table
\* together hold every matching row exactly once.
C6_StablePaging ==
  (client.mode = "paging" /\ client.pc = "done") =>
    /\ client.seen = ClosedAfter(store, client.tenantId, client.cursor)
    /\ client.again = {}

\* C7: the items of a LIST response are in ascending order of updatedAt.
C7_AscendingUpdatedAt ==
  ListOk =>
    \A i, j \in DOMAIN Items :
      i < j => Items[i].updatedAt <= Items[j].updatedAt

\* a response with two items of different updatedAt
C7_Witness ==
  /\ ListOk
  /\ \E i, j \in DOMAIN Items : Items[i].updatedAt < Items[j].updatedAt

\* the LIST request passed the validation of tenant and cursor
ListAccepted == IsList /\ ListRejection(req) = NoResponse

\* C8: a LIST request is answered with total equal to the number of CLOSED
\* rows of the tenant after the cursor, whatever its limit and offset, and
\* with no items, total 0 and no error when no row matches.
C8_TotalMatchesFilter ==
  ListAccepted =>
    /\ resp.status = 200
    /\ Pagination.total =
         Cardinality(ClosedAfter(store, req.tenantId, req.updatedAfter))
    /\ ClosedAfter(store, req.tenantId, req.updatedAfter) = {} =>
         Items = <<>> /\ Pagination.total = 0

\* the responses to the request for the page after the one answered
NextPageResponses ==
  ListResponses(store,
    [req EXCEPT !.offset = IntText(Pagination.offset + Pagination.limit)])

\* C9: the pagination of a LIST response carries count, the number of items,
\* and hasMore, which is true exactly when the next page has an item.
C9_CountAndHasMore ==
  ListOk =>
    /\ {"count", "hasMore"} \subseteq DOMAIN Pagination
    /\ Pagination.count = Len(Items)
    /\ Pagination.hasMore =
         (Pagination.offset + Pagination.count < Pagination.total)
    /\ \A n \in NextPageResponses :
         Pagination.hasMore = (n.status = 200 /\ n.body.protocols # <<>>)

\* C10: a limit of 0 or below gives the repository call and the response of
\* the request without limit; the limit of the call is within 1..100 and the
\* request is not answered with an error.
C10_LimitFloor ==
  (ListAccepted /\ req.limit.kind = "int" /\ req.limit.n <= 0) =>
    /\ calls = CallsOf([req EXCEPT !.limit = Absent])
    /\ calls[1].limit \in 1..MaxLimit
    /\ resp \in ListResponses(store, [req EXCEPT !.limit = Absent])
    /\ resp.status = 200

\* C11: a LIST request with a limit above 100 is answered 200 with
\* pagination.limit 100, makes the repository call of the same request with
\* limit=100 and can get exactly the responses (items, pagination, total) that
\* request gets.
C11_LimitCap ==
  (ListAccepted /\ req.limit.kind = "int" /\ req.limit.n > MaxLimit) =>
    /\ resp.status = 200
    /\ Pagination.limit = MaxLimit
    /\ calls = CallsOf([req EXCEPT !.limit = IntText(MaxLimit)])
    /\ ListResponses(store, req) =
         ListResponses(store, [req EXCEPT !.limit = IntText(MaxLimit)])

\* limit=500 is answered with items
C11_Witness ==
  /\ ListOk
  /\ req.limit = IntText(500)
  /\ Items # <<>>

\* C12: the offset of the repository call is never negative, and a LIST
\* request whose offset is negative, missing or not a number makes the
\* repository call and gets the responses of the same request with offset=0.
C12_OffsetFloor ==
  ListAccepted =>
    /\ calls[1].offset >= 0
    /\ (req.offset.kind # "int" \/ req.offset.n < 0) =>
         /\ calls = CallsOf([req EXCEPT !.offset = IntText(0)])
         /\ resp \in ListResponses(store, [req EXCEPT !.offset = IntText(0)])
         /\ ListResponses(store, req) =
              ListResponses(store, [req EXCEPT !.offset = IntText(0)])

\* offset=-5 is answered with items
C12_Witness ==
  /\ ListOk
  /\ req.offset = IntText(-5)
  /\ Items # <<>>

\* ids that are not in UUID v4 format: not a UUID at all, and a UUID of
\* version 1
MalformedIds == {NotAUuid, UuidV1}

C14_FormatErrorIndistinguishable ==
  (IsGet /\ req.tenantId # NoTenant /\ req.id \in MalformedIds) =>
    resp = SnapshotResponse(store, [req EXCEPT !.id = AbsentId])

\* C15: a LIST request under a tenant whose updatedAfter is present and is
\* not a timestamp (the empty text, or text that is no date) is answered 400
\* and is not answered as the request without updatedAfter is.
C15_BadCursorRejected ==
  (IsList /\ req.tenantId # NoTenant
     /\ req.updatedAfter.kind \in {"empty", "text"}) =>
    /\ resp.status = 400
    /\ resp \notin ListResponses(store, [req EXCEPT !.updatedAfter = Absent])

\* C16: a LIST or GET request without tenant is answered 401 Unauthorized,
\* and a request rejected for a missing tenant, for an updatedAfter that is
\* no timestamp or for an id that is not in UUID v4 format makes no
\* repository call.
C16_ValidationBeforeStorage ==
  /\ ((IsList \/ IsGet) /\ req.tenantId = NoTenant) =>
       resp = Unauthorized /\ calls = <<>>
  /\ (IsList /\ req.updatedAfter.kind = "text") => calls = <<>>
  /\ (IsGet /\ req.id \in MalformedIds) => calls = <<>>
  /\ (resp.status \in {400, 401} \/ resp = InvalidIdFormat) => calls = <<>>

\* a request is rejected while the table holds rows: one without tenant, or
\* one with an updatedAfter that is no timestamp
C16_Witness ==
  /\ IsList
  /\ store # EmptyStore
  /\ \/ req.tenantId = NoTenant /\ resp.status = 401
     \/ req.updatedAfter = OtherText /\ resp.status = 400

\* C17: when the page query or the count query of an accepted LIST request
\* is rejected, or the query of an accepted GET request, the response is 500
\* with the fixed body of the handler, which holds no items, and the request
\* has made its repository call once.
C17_FailFast ==
  /\ (ListAccepted /\ faults \in {1, 2}) =>
       /\ resp = ListFailed
       /\ "protocols" \notin DOMAIN resp.body
       /\ Len(calls) = 1
  /\ (IsGet /\ IdRejection(req) = NoResponse /\ faults = 1) =>
       /\ resp.status = 500
       /\ resp.body \in {GetByIdFailed.body, GetSnapshotFailed.body}
       /\ Len(calls) = 1

\* the count query of a LIST request is rejected after its page query found
\* rows
C17_Witness ==
  /\ ListAccepted
  /\ faults = 2
  /\ resp.status = 500
  /\ Matching(store, req.tenantId, req.updatedAfter) # {}

\* the CLOSED rows of the requesting tenant with the requested id
RequestedRows ==
  {k \in DOMAIN store :
     /\ Uuid(k) = req.id
     /\ store[k].tenant_id = req.tenantId
     /\ store[k].status = "CLOSED"}

\* C18: GET_SNAPSHOT under a tenant is answered 404 exactly when no row has
\* the requested id, the tenant and status CLOSED; when a row has, whatever
\* its snapshot value, the response is 200 and its body is that value.
C18_SnapshotVerbatim ==
  (IsGet /\ req.tenantId # NoTenant) =>
    /\ resp.status = 404 <=> RequestedRows = {}
    /\ \A k \in RequestedRows : resp = Response(200, store[k].snapshot)

ListMetadataFields ==
  {"id", "siteId", "plantId", "status", "closedAt", "updatedAt"}

\* C19: every item of a LIST response has exactly the fields id, siteId,
\* plantId, status, closedAt and updatedAt (so no snapshot, tenantId or
\* createdAt), its status is CLOSED and its other values are those of the
\* stored row, the timestamps as ISO strings.
C19_ListMetadataFields ==
  ListOk =>
    \A i \in DOMAIN Items :
      /\ DOMAIN Items[i] = ListMetadataFields
      /\ Items[i].id \in DOMAIN store
      /\ Items[i].status = "CLOSED"
      /\ Items[i].siteId = store[Items[i].id].site_id
      /\ Items[i].plantId = store[Items[i].id].plant_id
      /\ Items[i].closedAt = ToISOString(store[Items[i].id].closed_at)
      /\ Items[i].updatedAt = ToISOString(store[Items[i].id].updated_at)

\* the request sent to the other of the two GET endpoints
AliasRequest ==
  [req EXCEPT !.op = IF req.op = "getById" THEN "getSnapshotById"
                     ELSE "getById"]

\* C20: GET /:id/snapshot and GET /:id make the same repository call and
\* give the same status and body, for every tenant, id and table, also when
\* the query is rejected.
C20_AliasSameBehaviour ==
  IsGet =>
    /\ calls = CallsOf(AliasRequest)
    /\ resp = FaultySnapshotResponse(faults, store, AliasRequest)

\* a LIST request of a tenant with a cursor and the default page
SeedRequestOf(tenantId, cursor) ==
  /\ IsList
  /\ req = ListRequest(tenantId, cursor, Absent, Absent)

Feb(day) == IsoText(SeedTime(31 + day, 0, 0))

\* C21: on the seeded table a LIST under tenant-acme is answered with the 3
\* rows of tenant-acme in ascending updatedAt without cursor, with 2 rows
\* (6 and 13 February) after 5 February, 1 row (13 February) after 10
\* February, and no row and total 0 after 20 February; a LIST under
\* tenant-globex without cursor is answered with its 2 rows.
C21_SeededScenario ==
  /\ SeedRequestOf("tenant-acme", Absent) =>
       /\ resp.status = 200
       /\ [i \in DOMAIN Items |-> Items[i].id] = <<1, 2, 4>>
       /\ \A i, j \in DOMAIN Items :
            i < j => Items[i].updatedAt < Items[j].updatedAt
  /\ SeedRequestOf("tenant-acme", Feb(5)) =>
       /\ resp.status = 200
       /\ [i \in DOMAIN Items |-> Items[i].id] = <<2, 4>>
       /\ Items[1].updatedAt = ToISOString(SeedTime(31 + 6, 0, 0))
       /\ Items[2].updatedAt = ToISOString(SeedTime(31 + 13, 0, 0))
  /\ SeedRequestOf("tenant-acme", Feb(10)) =>
       /\ resp.status = 200
       /\ [i \in DOMAIN Items |-> Items[i].id] = <<4>>
  /\ SeedRequestOf("tenant-acme", Feb(20)) =>
       /\ resp.status = 200
       /\ Items = <<>>
       /\ Pagination.total = 0
  /\ SeedRequestOf("tenant-globex", Absent) =>
       /\ resp.status = 200
       /\ Len(Items) = 2
       /\ {Items[i].id : i \in DOMAIN Items} = {3, 5}

\* the request with the cursor of 5 February has been answered
C21_Witness ==
  /\ SeedRequestOf("tenant-acme", Feb(5))
  /\ store = SeededStore
  /\ Len(Items) = 2

\* C22: no request to the health, LIST, GET /:id and GET /:id/snapshot
\* endpoints, answered with success or with an error, changes the table.
C22_ReadOnly ==
  [][(phase = "idle" /\ phase' = "responded") => store' = store]_vars

\* a request has been answered with the row it asked for, and one has been
\* answered 500, on a table that holds rows
C22_Witness ==
  /\ IsGet
  /\ store # EmptyStore
  /\ \/ resp.status = 200 /\ RequestedRows # {}
     \/ resp.status = 500

\* C23: a request reaches a handler only if its X-API-Key is a key of the
\* API_KEYS mapping, and then req.tenantId is the tenant mapped to the key;
\* a request with no key or with a key that is not in the mapping is
\* answered 401 and neither a handler nor a repository call runs.
C23_KeyToTenant ==
  /\ headers.reached # "none" =>
       /\ headers.apiKey \in DOMAIN env.API_KEYS
       /\ req.tenantId = env.API_KEYS[headers.apiKey]
  /\ (phase = "responded" /\ env.valid
        /\ headers.apiKey \notin DOMAIN env.API_KEYS) =>
       /\ resp.status = 401
       /\ headers.reached = "none"
       /\ calls = <<>>

\* the execution has been created and answered 201
ExecutionCreated == exec.status # "none"

\* callback i has handed its webhook to fetch
HookSent(i) ==
  \E j \in DOMAIN exec.hooks : exec.hooks[j].body.status = LifecycleStatus[i]

\* the UPDATE of callback i has been executed
UpdateSucceeded(i) ==
  exec.step[i] \in {"updated", "sending", "done", "webhookFailed"}

StepEnded(i) == exec.step[i] \in {"done", "updateFailed", "webhookFailed"}

StepFailed(i) == exec.step[i] \in {"updateFailed", "webhookFailed"}

\* C25: after a create request answered 201 the stored status changes to
\* in_progress and later to completed and a signed webhook is sent at each
\* change: once no timer or callback of the execution is pending and none
\* has failed, the status has held initialized, in_progress, completed in
\* this order and the two signed webhooks have been sent in this order.
C25_Lifecycle ==
  (ExecutionCreated /\ \A i \in 1..2 : exec.step[i] \in {"off", "done"}) =>
    /\ exec.history = <<"initialized", "in_progress", "completed">>
    /\ exec.hooks =
         <<Webhook([executionId |-> 1, status |-> "in_progress"]),
           Webhook([executionId |-> 1, status |-> "completed"])>>

StatusRank(status) ==
  CASE status = "initialized" -> 0
    [] status = "in_progress" -> 1
    [] status = "completed" -> 2

\* C27: under every interleaving of the two callbacks and their updates
\* the stored status only moves forward (never from completed back to
\* in_progress), the in_progress webhook is sent before the completed
\* webhook, and once both callbacks have finished without failure the
\* stored status is completed.
C27_ForwardOnly ==
  /\ \A j \in 1..(Len(exec.history) - 1) :
       StatusRank(exec.history[j]) < StatusRank(exec.history[j + 1])
  /\ \A j \in 1..(Len(exec.hooks) - 1) :
       StatusRank(exec.hooks[j].body.status)
         < StatusRank(exec.hooks[j + 1].body.status)
  /\ (exec.step = <<"done", "done">>) => exec.status = "completed"

\* C28: the two lifecycle steps fail independently: a webhook is sent only
\* after the update of its own step has succeeded, and when the in_progress
\* step has failed the completed step still runs to its end.
C28_IndependentSteps ==
  /\ [](\A i \in 1..2 : HookSent(i) => UpdateSucceeded(i))
  /\ (StepFailed(1) ~> StepEnded(2))

\* the update of the in_progress step was rejected, and the completed step
\* has updated the row and delivered its webhook
C28_Witness ==
  /\ exec.step = <<"updateFailed", "done">>
  /\ exec.status = "completed"
  /\ Len(exec.hooks) = 1
  /\ HookSent(2)

\* C26: when another process inserts rows while a LIST request is served,
\* the response is the response of the request on one state the table was
\* in during the request: the page and the total are not taken from two
\* different states.
C26_OneStoreState ==
  (phase = "responded" /\ resp.status = 200 /\ inflight # NoInflight) =>
    \E s \in inflight.during : resp \in ListResponses(s, req)

\* C29: in every successful LIST response the number of items is at most
\* pagination.limit and at most 100, whatever the raw limit and offset, and
\* the repository, called with any limit, returns at most 100 rows.
C29_PageBound ==
  /\ (phase = "responded" /\ ListOk) =>
       /\ Len(Items) <= Pagination.limit
       /\ Len(Items) <= MaxLimit
  /\ inflight.page.ok => Len(inflight.page.rows) <= MaxLimit

\* limit=500 on a table of 101 rows of the tenant has been answered with
\* 100 items, and the repository has returned its largest page
C29_Witness ==
  /\ phase = "responded"
  /\ ListOk
  /\ req.limit = IntText(500)
  /\ Len(Items) = MaxLimit
  /\ Pagination.total = MaxLimit + 1
  /\ inflight.page.ok
  /\ Len(inflight.page.rows) = MaxLimit

\* the table holds the five seed records and nothing else
ExactlySeedData(s) ==
  /\ DOMAIN s = {generateSeedData[i].id : i \in DOMAIN generateSeedData}
  /\ Cardinality(DOMAIN s) = 5
  /\ \A i \in DOMAIN generateSeedData :
       s[generateSeedData[i].id] = SeedRow(generateSeedData[i])

\* C30: the seed script is all-or-nothing: when the delete or an insert
\* has failed the table has the content it had before the script started,
\* also while the script is still running; when the script has succeeded
\* the table holds exactly the five seed records, whatever it held before,
\* the result of an earlier run included.
C30_AllOrNothing ==
  /\ seed.pc \in {"delete", "insert", "rollback", "failed"} =>
       store = seed.before
  /\ seed.pc = "done" => ExactlySeedData(store)

\* the script has failed at an insert after it had deleted the rows of a
\* table that held rows, seed rows of an earlier run among them
C30_Witness ==
  /\ seed.pc = "failed"
  /\ seed.next > 1
  /\ seed.work # seed.before
  /\ seed.before # EmptyStore
  /\ \E k \in DOMAIN store : k \notin RowKeys

====
